---------------------------- MODULE Spec2Model ----------------------------
(***************************************************************************)
(* Model of the NetworkEmulator frame layer: the MAC address codec         *)
(* (MacUtil::macToString / MacUtil::stringToMac), the additive checksum    *)
(* (MacUtil::calculateChecksum) and the EthernetFrame record with its      *)
(* serialize / deserialize / verifyChecksum operations.                    *)
(*                                                                         *)
(* Text is a sequence of one-character strings; a byte held in a C++       *)
(* `char` is an integer in -128..127 (signed char), an `unsigned char` an  *)
(* integer in 0..255.  The std::stringstream extractions used by           *)
(* stringToMac are modelled by what the stream does: whitespace skipping   *)
(* in the sentry, the sign and "0x" prefix accepted by hexadecimal integer *)
(* extraction, greedy digit accumulation with 32-bit overflow, and the     *)
(* eofbit / failbit state that later extractions observe.                  *)
(***************************************************************************)
EXTENDS Integers, Sequences, FiniteSets, TLC

(***************************************************************************)
(* Program constants and integer widths                                    *)
(***************************************************************************)
MAC_ADDRESS_LENGTH == 6

ByteRange == 256

UInt16Range == 65536

(***************************************************************************)
(* Characters                                                              *)
(***************************************************************************)
UpperHexDigits ==
  <<"0","1","2","3","4","5","6","7","8","9","A","B","C","D","E","F">>

LowerHexDigits ==
  <<"0","1","2","3","4","5","6","7","8","9","a","b","c","d","e","f">>

IsSpace(c) == c = " "

\* num_get's digit lookup for base 16: '0'..'9', 'a'..'f', 'A'..'F'; -1 if none
HexDigitValue(c) ==
  IF \E d \in 1..16 : UpperHexDigits[d] = c
    THEN (CHOOSE d \in 1..16 : UpperHexDigits[d] = c) - 1
    ELSE IF \E d \in 1..16 : LowerHexDigits[d] = c
           THEN (CHOOSE d \in 1..16 : LowerHexDigits[d] = c) - 1
           ELSE -1

ZeroMac == [i \in 1..MAC_ADDRESS_LENGTH |-> 0]

(***************************************************************************)
(* MacUtil::macToString                                                    *)
(***************************************************************************)
RECURSIVE HexDigitsOf(_)
\* std::hex << std::uppercase of a non-negative int: its digits, no padding
HexDigitsOf(n) ==
  IF n < 16 THEN <<UpperHexDigits[n + 1]>>
            ELSE HexDigitsOf(n \div 16) \o <<UpperHexDigits[(n % 16) + 1]>>

RECURSIVE PadLeft(_, _, _)
\* std::setw(w) with std::setfill(fill): pad on the left up to width w
PadLeft(s, w, fill) ==
  IF Len(s) >= w THEN s ELSE PadLeft(<<fill>> \o s, w, fill)

RECURSIVE macToString_from(_, _)
macToString_from(mac, i) ==
  IF i > Len(mac) THEN <<>>
  ELSE PadLeft(HexDigitsOf(mac[i]), 2, "0")
         \o (IF i < Len(mac) THEN <<":">> ELSE <<>>)
         \o macToString_from(mac, i + 1)

RECURSIVE macToString_noFill_from(_, _)
macToString_noFill_from(mac, i) ==
  IF i > Len(mac) THEN <<>>
  ELSE HexDigitsOf(mac[i])
         \o (IF i < Len(mac) THEN <<":">> ELSE <<>>)
         \o macToString_noFill_from(mac, i + 1)

\* macToString without std::setfill('0') << std::setw(2)
macToString_noFill(mac) == macToString_noFill_from(mac, 1)

macToString(mac) == macToString_from(mac, 1)


(***************************************************************************)
(* std::stringstream as used by MacUtil::stringToMac                       *)
(* A stream over text s is [pos, eof, fail]: the index of the next         *)
(* character to read and the eofbit / failbit flags.                       *)
(***************************************************************************)
OpenStream == [pos |-> 1, eof |-> FALSE, fail |-> FALSE]

good(st) == ~st.eof /\ ~st.fail

RECURSIVE SkipSpace(_, _)
SkipSpace(s, p) ==
  IF p <= Len(s) /\ IsSpace(s[p]) THEN SkipSpace(s, p + 1) ELSE p

\* istream::sentry with skipws: fails on a stream that is not good, skips
\* leading whitespace, and fails with eofbit|failbit when nothing is left
Sentry(s, st) ==
  IF ~good(st)
    THEN [st |-> [st EXCEPT !.fail = TRUE], ok |-> FALSE]
    ELSE LET p == SkipSpace(s, st.pos)
         IN  IF p > Len(s)
               THEN [st |-> [pos |-> p, eof |-> TRUE, fail |-> TRUE], ok |-> FALSE]
               ELSE [st |-> [pos |-> p, eof |-> FALSE, fail |-> FALSE], ok |-> TRUE]

\* An unsigned int (32 bits) is kept as two 16-bit halves [hi, lo], its value
\* being hi * 65536 + lo, so that every intermediate stays a small integer.
UInt(h, l) == [hi |-> h, lo |-> l]

UIntMax == UInt(UInt16Range - 1, UInt16Range - 1)

\* the comparison with the limit one too high
UIntGreater_offByOne(v, limit) == v.hi > 0 \/ v.lo > limit + 1

\* byteVal > limit, for a limit below 65536
UIntGreater(v, limit) == v.hi > 0 \/ v.lo > limit

\* unsigned negation modulo 2^32
UIntNegate(v) ==
  UInt((UInt16Range - 1 - v.hi + (IF v.lo = 0 THEN 1 ELSE 0)) % UInt16Range,
       (UInt16Range - v.lo) % UInt16Range)

RECURSIVE AccumulateDigits(_, _, _, _, _, _)
\* the digit loop of integer extraction in the given base with a 32-bit result:
\* a digit that no longer fits sets the overflow flag (result > max / base
\* leaves the result alone, result * base > max - digit wraps it)
AccumulateDigits(s, p, base, result, overflow, ndigits) ==
  IF p > Len(s) \/ HexDigitValue(s[p]) = -1 \/ HexDigitValue(s[p]) >= base
    THEN [pos |-> p, result |-> result, overflow |-> overflow, ndigits |-> ndigits]
    ELSE LET d == HexDigitValue(s[p])
             scaledHi == result.hi * base + (result.lo * base) \div UInt16Range
             lo2 == result.lo * base + d
             hi2 == result.hi * base + lo2 \div UInt16Range
         IN  IF scaledHi >= UInt16Range
               THEN AccumulateDigits(s, p + 1, base, result, TRUE, ndigits)
               ELSE AccumulateDigits(s, p + 1, base,
                      UInt(hi2 % UInt16Range, lo2 % UInt16Range),
                      overflow \/ hi2 >= UInt16Range,
                      ndigits + 1)

\* ss >> byteVal for an unsigned int, in the given base (16 after ss >> std::hex)
ExtractUInt(s, st0, base) ==
  LET sen == Sentry(s, st0)
  IN  IF ~sen.ok THEN [st |-> sen.st, ok |-> FALSE, val |-> UInt(0, 0)]
      ELSE
        LET p0 == sen.st.pos
            negative == s[p0] = "-"
            p1 == IF s[p0] \in {"-", "+"} THEN p0 + 1 ELSE p0
            zero == p1 <= Len(s) /\ s[p1] = "0"
            prefix == base = 16 /\ zero /\ p1 + 1 <= Len(s) /\ s[p1 + 1] \in {"x", "X"}
            found_zero == zero /\ ~prefix
            p2 == IF prefix THEN p1 + 2 ELSE IF zero THEN p1 + 1 ELSE p1
            acc == AccumulateDigits(s, p2, base, UInt(0, 0), FALSE, 0)
            nothing == acc.ndigits = 0 /\ ~found_zero
            failed == nothing \/ acc.overflow
            val == IF nothing THEN UInt(0, 0)
                   ELSE IF acc.overflow THEN UIntMax
                   ELSE IF negative THEN UIntNegate(acc.result)
                   ELSE acc.result
        IN  [st |-> [pos |-> acc.pos, eof |-> acc.pos > Len(s), fail |-> failed],
             ok |-> ~failed, val |-> val]

\* ss >> colonChar for a char: skips whitespace, then takes one character
ExtractChar(s, st0) ==
  LET sen == Sentry(s, st0)
  IN  IF ~sen.ok THEN [st |-> sen.st, ok |-> FALSE, ch |-> ""]
      ELSE [st |-> [sen.st EXCEPT !.pos = sen.st.pos + 1], ok |-> TRUE,
            ch |-> s[sen.st.pos]]

(***************************************************************************)
(* MacUtil::stringToMac                                                    *)
(* The result is [mac, cerr]: the returned address and the diagnostics     *)
(* written to std::cerr, each [msg, pos] with pos the loop index i.        *)
(***************************************************************************)
Diag(m, i) == [msg |-> m, pos |-> i]

\* a failure path that returns resultMac as filled so far instead of {}
Rejected_partial(m, i, resultMac) == [mac |-> resultMac, cerr |-> <<Diag(m, i)>>]

\* std::cerr << "Error: ..."; return {};  (resultMac, partly filled, is dropped)
Rejected(m, i, resultMac) == [mac |-> ZeroMac, cerr |-> <<Diag(m, i)>>]

\* step 4: the leftover-data check after the loop
stringToMac_leftover(s, st, resultMac) ==
  IF good(st) /\ ExtractChar(s, st).ok
    THEN Rejected("extra", MAC_ADDRESS_LENGTH, resultMac)
    ELSE [mac |-> resultMac, cerr |-> <<>>]

RECURSIVE stringToMac_loop(_, _, _, _, _, _)
\* the for loop, entered at index i (0-based as in the source); base is the
\* stream's number base and groups below index `colons` are followed by ':'
stringToMac_loop(s, st, base, colons, i, resultMac) ==
  IF i >= MAC_ADDRESS_LENGTH THEN stringToMac_leftover(s, st, resultMac)
  ELSE
    LET rd == ExtractUInt(s, st, base)
    IN  IF ~rd.ok THEN Rejected("read", i, resultMac)
        ELSE IF UIntGreater(rd.val, 255) THEN Rejected("range", i, resultMac)
        ELSE
          LET stored == [resultMac EXCEPT ![i + 1] = rd.val.lo % ByteRange]
          IN  IF i < colons
                THEN LET col == ExtractChar(s, rd.st)
                     IN  IF ~col.ok \/ col.ch # ":"
                           THEN Rejected("colon", i, stored)
                           ELSE stringToMac_loop(s, col.st, base, colons, i + 1, stored)
                ELSE stringToMac_loop(s, rd.st, base, colons, i + 1, stored)

\* stringToMac expecting a ':' after the last group as well
stringToMac_colonAfterLast(macStr) ==
  stringToMac_loop(macStr, OpenStream, 16, MAC_ADDRESS_LENGTH, 0, ZeroMac)

\* stringToMac expecting no ':' after the fifth group either
stringToMac_fourColons(macStr) ==
  stringToMac_loop(macStr, OpenStream, 16, MAC_ADDRESS_LENGTH - 2, 0, ZeroMac)

\* stringToMac without ss >> std::hex
stringToMac_decimal(macStr) ==
  stringToMac_loop(macStr, OpenStream, 10, MAC_ADDRESS_LENGTH - 1, 0, ZeroMac)

stringToMac(macStr) ==
  stringToMac_loop(macStr, OpenStream, 16, MAC_ADDRESS_LENGTH - 1, 0, ZeroMac)

(***************************************************************************)
(* MacUtil::calculateChecksum                                              *)
(***************************************************************************)
\* static_cast<unsigned char>(byte) of a (signed) char
ToUnsignedChar(c) == IF c < 0 THEN c + ByteRange ELSE c

\* the conversion of a 0..255 value to the (signed) char holding it
ToChar(u) == IF u >= ByteRange \div 2 THEN u - ByteRange ELSE u

\* sum += byte, without the cast to unsigned char
AddByte_signed(sum, byte) == (sum + byte) % UInt16Range

\* sum += static_cast<unsigned char>(byte): sum is a uint16_t, so the
\* addition wraps modulo 65536
AddByte(sum, byte) == (sum + ToUnsignedChar(byte)) % UInt16Range

\* the smaller of two numbers
Min(a, b) == IF a < b THEN a ELSE b

RECURSIVE calculateChecksum_run(_, _, _)
\* the iterations of the range-for loop over the bytes up to data[last]; at
\* is [i, sum]: the index of the next byte and the accumulator so far, and
\* the value is that pair after these iterations.  Eight iterations are
\* taken at a time while that many bytes remain.
calculateChecksum_run(data, at, last) ==
  IF at.i > last THEN at
  ELSE IF at.i + 7 <= last
    THEN calculateChecksum_run(data,
           [i |-> at.i + 8,
            sum |-> AddByte(AddByte(AddByte(AddByte(AddByte(AddByte(AddByte(
                      AddByte(at.sum, data[at.i]), data[at.i + 1]),
                      data[at.i + 2]), data[at.i + 3]), data[at.i + 4]),
                      data[at.i + 5]), data[at.i + 6]), data[at.i + 7])],
           last)
    ELSE calculateChecksum_run(data,
           [i |-> at.i + 1, sum |-> AddByte(at.sum, data[at.i])], last)

RECURSIVE calculateChecksum_stretch(_, _, _)
\* the same iterations, taken as runs of 256 bytes one after the other
calculateChecksum_stretch(data, at, last) ==
  IF at.i > last THEN at
  ELSE calculateChecksum_stretch(data,
         calculateChecksum_run(data, at, Min(at.i + 255, last)), last)

RECURSIVE calculateChecksum_loop(_, _)
\* the range-for loop from the byte at.i on, taken as stretches of 8192
\* bytes one after the other, which keeps the evaluation of long inputs
\* shallow; the value is the accumulator after the last byte
calculateChecksum_loop(data, at) ==
  IF at.i > Len(data) THEN at.sum
  ELSE calculateChecksum_loop(data,
         calculateChecksum_stretch(data, at, Min(at.i + 8191, Len(data))))

\* calculateChecksum with a uint8_t accumulator
calculateChecksum_uint8(data) ==
  calculateChecksum_loop(data, [i |-> 1, sum |-> 0]) % ByteRange

\* calculateChecksum whose loop starts at the second byte
calculateChecksum_skipFirst(data) ==
  calculateChecksum_loop(data, [i |-> 2, sum |-> 0])

calculateChecksum(data) == calculateChecksum_loop(data, [i |-> 1, sum |-> 0])

HeaderLength == 14

\* bytes on the wire besides the payload: the header and the 2-byte checksum
FrameOverhead == 16

\* the payload constructor with payloadLength kept in a uint8_t
EthernetFrame_byteLength(dest, src, data_payload) ==
  [destMac |-> dest, srcMac |-> src,
   payloadLength |-> Len(data_payload) % ByteRange,
   payload |-> data_payload,
   checksum |-> calculateChecksum(data_payload)]

\* EthernetFrame(dest, src, data_payload)
EthernetFrame(dest, src, data_payload) ==
  [destMac |-> dest, srcMac |-> src,
   payloadLength |-> Len(data_payload) % UInt16Range,
   payload |-> data_payload,
   checksum |-> calculateChecksum(data_payload)]

\* a 16-bit field as two chars, most significant byte first
UInt16Bytes(v) == <<ToChar(v \div ByteRange), ToChar(v % ByteRange)>>

\* the 16-bit value of two chars, most significant byte first
UInt16Of(high, low) == ToUnsignedChar(high) * ByteRange + ToUnsignedChar(low)

\* serialize that writes the checksum least significant byte first
serialize_checksumSwapped(f) ==
  [i \in 1..MAC_ADDRESS_LENGTH |-> ToChar(f.destMac[i])]
    \o [i \in 1..MAC_ADDRESS_LENGTH |-> ToChar(f.srcMac[i])]
    \o UInt16Bytes(f.payloadLength)
    \o f.payload
    \o <<ToChar(f.checksum % ByteRange), ToChar(f.checksum \div ByteRange)>>

\* std::vector<char> EthernetFrame::serialize() const
serialize(f) ==
  [i \in 1..MAC_ADDRESS_LENGTH |-> ToChar(f.destMac[i])]
    \o [i \in 1..MAC_ADDRESS_LENGTH |-> ToChar(f.srcMac[i])]
    \o UInt16Bytes(f.payloadLength)
    \o f.payload
    \o UInt16Bytes(f.checksum)

\* raw_data[k - 1]; past the end of the buffer the read has no defined value
\* and yields whatever `beyond` stands for
ReadAt(raw_data, k, beyond) ==
  IF k <= Len(raw_data) THEN raw_data[k] ELSE beyond

\* the payload length that deserialize takes from offsets 12..13
EncodedLength(raw_data, beyond) ==
  UInt16Of(ReadAt(raw_data, HeaderLength - 1, beyond),
           ReadAt(raw_data, HeaderLength, beyond))

\* some read of deserialize lies past the end of the buffer
ReadsPastEnd(raw_data) ==
  \/ Len(raw_data) < HeaderLength
  \/ Len(raw_data) < FrameOverhead + EncodedLength(raw_data, 0)

\* static EthernetFrame EthernetFrame::deserialize(raw_data): the fields are
\* read in serialize's order and the encoded length is trusted
deserialize(raw_data, beyond) ==
  LET len == EncodedLength(raw_data, beyond)
  IN  [destMac |-> [i \in 1..MAC_ADDRESS_LENGTH |->
                      ToUnsignedChar(ReadAt(raw_data, i, beyond))],
       srcMac |-> [i \in 1..MAC_ADDRESS_LENGTH |->
                      ToUnsignedChar(ReadAt(raw_data, MAC_ADDRESS_LENGTH + i, beyond))],
       payloadLength |-> len,
       payload |-> [i \in 1..len |-> ReadAt(raw_data, HeaderLength + i, beyond)],
       checksum |-> UInt16Of(ReadAt(raw_data, HeaderLength + len + 1, beyond),
                             ReadAt(raw_data, HeaderLength + len + 2, beyond))]

\* bool EthernetFrame::verifyChecksum() const
verifyChecksum(f) == calculateChecksum(f.payload) = f.checksum

(***************************************************************************)
(* RawPacket and NetworkMedium (the per-node version, with                 *)
(* std::map<int, std::queue<RawPacket>> nodeInboxes).  A RawPacket is its  *)
(* data, a sequence of chars; the map is a function from the registered    *)
(* node IDs to the queues, front first.                                    *)
(***************************************************************************)
\* RawPacket(): a packet without bytes
EmptyRawPacket == <<>>

\* nodeInboxes[nodeID]; -- creates an empty inbox unless there is one
registerNode(inboxes, nodeID) ==
  IF nodeID \in DOMAIN inboxes THEN inboxes
  ELSE [n \in DOMAIN inboxes \cup {nodeID} |->
          IF n = nodeID THEN <<>> ELSE inboxes[n]]

\* sendPacket putting the packet at the front of the queue
sendPacket_pushFront(inboxes, sourceNodeID, destNodeID, packet) ==
  IF destNodeID \notin DOMAIN inboxes THEN inboxes
  ELSE [inboxes EXCEPT ![destNodeID] = <<packet>> \o @]

\* sendPacket pushing the packet into every inbox but the sender's
sendPacket_broadcast(inboxes, sourceNodeID, destNodeID, packet) ==
  IF destNodeID \notin DOMAIN inboxes THEN inboxes
  ELSE [n \in DOMAIN inboxes |->
          IF n = sourceNodeID /\ n # destNodeID THEN inboxes[n]
          ELSE Append(inboxes[n], packet)]

\* sendPacket without the count() test: nodeInboxes[destNodeID].push(packet)
\* creates the inbox it pushes to
sendPacket_subscript(inboxes, sourceNodeID, destNodeID, packet) ==
  [registerNode(inboxes, destNodeID) EXCEPT ![destNodeID] = Append(@, packet)]

\* the new nodeInboxes: unchanged when destNodeID has no inbox, else the
\* packet is pushed at the back of that inbox
sendPacket(inboxes, sourceNodeID, destNodeID, packet) ==
  IF destNodeID \notin DOMAIN inboxes THEN inboxes
  ELSE [inboxes EXCEPT ![destNodeID] = Append(@, packet)]

\* receivePacket returning the front packet without pop()
receivePacket_noPop(inboxes, nodeID) ==
  IF nodeID \notin DOMAIN inboxes \/ inboxes[nodeID] = <<>>
    THEN [inboxes |-> inboxes, packet |-> EmptyRawPacket]
    ELSE [inboxes |-> inboxes, packet |-> Head(inboxes[nodeID])]

\* receivePacket without the count() test: nodeInboxes[nodeID].empty() then
\* creates the inbox it asks about
receivePacket_noCount(inboxes, nodeID) ==
  LET present == registerNode(inboxes, nodeID)
  IN  IF present[nodeID] = <<>>
        THEN [inboxes |-> present, packet |-> EmptyRawPacket]
        ELSE [inboxes |-> [present EXCEPT ![nodeID] = Tail(@)],
              packet |-> Head(present[nodeID])]

\* [inboxes, packet]: the new nodeInboxes and the packet returned
receivePacket(inboxes, nodeID) ==
  IF nodeID \notin DOMAIN inboxes
    THEN [inboxes |-> inboxes, packet |-> EmptyRawPacket]
  ELSE IF inboxes[nodeID] = <<>>
    THEN [inboxes |-> inboxes, packet |-> EmptyRawPacket]
  ELSE [inboxes |-> [inboxes EXCEPT ![nodeID] = Tail(@)],
        packet |-> Head(inboxes[nodeID])]

\* hasPackets asking !nodeInboxes[nodeID].empty(): the subscript creates the
\* inbox it asks about
hasPackets_subscript(inboxes, nodeID) ==
  LET present == registerNode(inboxes, nodeID)
  IN  [inboxes |-> present, answer |-> present[nodeID] # <<>>]

\* [inboxes, answer]: const, find(nodeID), then !empty(); false without an
\* inbox, and nodeInboxes is as it was
hasPackets(inboxes, nodeID) ==
  [inboxes |-> inboxes,
   answer |-> IF nodeID \in DOMAIN inboxes THEN inboxes[nodeID] # <<>>
              ELSE FALSE]

(***************************************************************************)
(* Node: every call goes to the NetworkMedium the node was constructed     *)
(* with, so each operator takes nodeInboxes and, like the medium's, gives  *)
(* the new nodeInboxes with its result.  A message is a std::string, a     *)
(* sequence of chars.                                                      *)
(***************************************************************************)
\* RawPacket(message): data.assign(message.begin(), message.end())
RawPacket(message) == [i \in 1..Len(message) |-> message[i]]

\* std::string(data.begin(), data.end())
toString(packet) == [i \in 1..Len(packet) |-> packet[i]]

\* data.size()
size(packet) == Len(packet)

\* Node(id, medium): medium.registerNode(nodeID)
Node(inboxes, id) == registerNode(inboxes, id)

\* sendMessage that puts the message and its terminating '\0' in the packet
sendMessage_withTerminator(inboxes, nodeID, destNodeID, message) ==
  sendPacket(inboxes, nodeID, destNodeID, Append(RawPacket(message), 0))

\* RawPacket packet(message); medium.sendPacket(nodeID, destNodeID, packet)
sendMessage(inboxes, nodeID, destNodeID, message) ==
  sendPacket(inboxes, nodeID, destNodeID, RawPacket(message))

\* hasIncomingMessages that never sees a packet
hasIncomingMessages_never(inboxes, nodeID) ==
  [inboxes |-> inboxes, answer |-> FALSE]

\* return medium.hasPackets(nodeID)
hasIncomingMessages(inboxes, nodeID) == hasPackets(inboxes, nodeID)

\* [inboxes, message, got]: the new nodeInboxes, the string returned, and
\* whether the branch that takes a packet from the medium was run (it logs
\* "Received message"; the other one logs "No incoming messages." and
\* returns "")
receiveMessage(inboxes, nodeID) ==
  LET has == hasIncomingMessages(inboxes, nodeID)
  IN  IF has.answer
        THEN LET r == receivePacket(has.inboxes, nodeID)
             IN  [inboxes |-> r.inboxes, message |-> toString(r.packet),
                  got |-> TRUE]
        ELSE [inboxes |-> has.inboxes, message |-> <<>>, got |-> FALSE]

(***************************************************************************)
(* Bounds and input sets                                                   *)
(***************************************************************************)
\* largest number of colon-separated groups in a given address text
MaxGroups == 7

\* longest payload / checksum input (258 bytes of 0xFF sum to 65790 > 65535)
MaxPayloadLen == 258

\* longest payload whose bytes are chosen independently
MaxShortLen == 2

\* byte values of the addresses handed to macToString
MacBytes == {0, 10, 26, 255}

MacInputs == [1..MAC_ADDRESS_LENGTH -> MacBytes]

\* groups every given text is filled with
FillGroups == {<<"a", "B">>}

\* the group put at one chosen position of a given text
OddGroups ==
  { <<"0", "0">>, <<"1", "A">>, <<"f", "f">>, <<"C">>, <<"1", "0", "0">>,
    <<"G", "G">>, <<"1", "G">>, <<>>, <<"0", "x", "1", "A">>, <<"0", "x">>,
    <<"-", "0">>, <<"-", "1">>, <<"+", "1", "A">>, <<" ", "1", "A">>,
    <<"1", "A", " ">>, <<"0", "0", "0", "0", "0", "0", "0", "0", "A">>,
    <<"1", "0", "0", "0", "0", "0", "0", "0", "0">> }

\* the separator put at one chosen position of a given text
OddSeparators ==
  { <<":">>, <<"-">>, <<>>, <<" ">>, <<" ", ":">>, <<":", ":">> }

\* what follows the last group of a given text
Trailers == { <<>>, <<" ">>, <<":">>, <<"0">> }

RECURSIVE JoinGroups(_, _, _)
JoinGroups(groups, seps, i) ==
  IF i > Len(groups) THEN <<>>
  ELSE groups[i] \o (IF i < Len(groups) THEN seps[i] ELSE <<>>)
         \o JoinGroups(groups, seps, i + 1)

\* n groups, all `fill` but group p, joined by ':' but for separator q
BuildText(n, fill, p, odd, q, sep, trail) ==
  JoinGroups([i \in 1..n |-> IF i = p THEN odd ELSE fill],
             [i \in 1..n |-> IF i = q THEN sep ELSE <<":">>], 1) \o trail

\* the texts main.cpp expects to parse without an error
validMacStrings ==
  { <<"0","0",":","0","0",":","0","0",":","0","0",":","0","0",":","0","0">>,
    <<"0","1",":","0","2",":","0","3",":","0","4",":","0","5",":","0","6">>,
    <<"A","A",":","B","B",":","C","C",":","D","D",":","E","E",":","F","F">>,
    <<"a","a",":","b","b",":","c","c",":","d","d",":","e","e",":","f","f">>,
    <<"1","A",":","2","B",":","3","C",":","4","D",":","5","E",":","6","F">> }

\* the texts main.cpp expects to be answered with an error and all zeros
invalidMacStrings ==
  { <<"0","0",":","1","1",":","2","2",":","3","3",":","4","4">>,
    <<"0","0",":","1","1",":","2","2",":","3","3",":","4","4",":","5","5",":","6","6">>,
    <<"0","0",":","1","1",":","2","2",":","X","X",":","Y","Y",":","Z","Z">>,
    <<"0","0","-","1","1","-","2","2","-","3","3","-","4","4","-","5","5">>,
    <<"0","0",":","1","1",":","2","2",":","A","A",":","B","B",":","C","C",":","E","X","T","R","A">>,
    <<"0","0",":","1","1",":","2","2",":","A","A",":","B","B",":","G","G">>,
    <<"0","0",":","1","1",":","2","2",":","A","A",":","B","B",":","C">>,
    <<"0","0",":","1","1",":","2","2",":","A","A",":","B","B",":","1","0","0">> }

\* given texts: main.cpp's, and texts with one odd group and either one odd
\* separator or a trailer
TextInputs ==
  validMacStrings \cup invalidMacStrings
  \cup
  { BuildText(n, fill, p, odd, q, sep, <<>>) :
      n \in 0..MaxGroups, fill \in FillGroups, p \in 1..MaxGroups,
      odd \in OddGroups, q \in 1..MaxGroups, sep \in OddSeparators }
  \cup
  { BuildText(n, fill, p, odd, 0, <<":">>, trail) :
      n \in 0..MaxGroups, fill \in FillGroups, p \in 1..MaxGroups,
      odd \in OddGroups, trail \in Trailers }

\* chars (signed, -128..127) that payloads and checksum inputs are made of:
\* 'H' (72), 'A' (65), NUL, 0x80 (-128) and 0xFF (-1)
PayloadChars == {72, 65, 0, -128, -1}

ShortPayloads == UNION { [1..n -> PayloadChars] : n \in 0..MaxShortLen }

LongPayloads ==
  { [i \in 1..n |-> c] : n \in (MaxPayloadLen - 3)..MaxPayloadLen,
                         c \in PayloadChars }

Hello == <<72, 101, 108, 108, 111>>

\* the node IDs the medium is called with
NodeIDs == {1, 2, 3}

\* most sendPacket calls, and most receivePacket calls, in one run
MaxSends == 2

MaxReceives == 2

\* the packets handed to sendPacket: "", "H" and "Hi"
RawPackets == {EmptyRawPacket, <<72>>, <<72, 105>>}

PayloadInputs == ShortPayloads \cup LongPayloads \cup {Hello}

\* "Hello Node 2 from Node 1!"
HelloMessage ==
  <<72, 101, 108, 108, 111, 32, 78, 111, 100, 101, 32, 50, 32,
    102, 114, 111, 109, 32, 78, 111, 100, 101, 32, 49, 33>>

\* "Hi Node 1! Got your message. Greetings from Node 2!"
ReplyMessage ==
  <<72, 105, 32, 78, 111, 100, 101, 32, 49, 33, 32, 71, 111,
    116, 32, 121, 111, 117, 114, 32, 109, 101, 115, 115, 97, 103,
    101, 46, 32, 71, 114, 101, 101, 116, 105, 110, 103, 115, 32,
    102, 114, 111, 109, 32, 78, 111, 100, 101, 32, 50, 33>>

\* the messages handed to sendMessage: "" and the two of the README
Messages == {<<>>, HelloMessage, ReplyMessage}

\* 'A' followed by 0xFF up to the longest length: the sum wraps
MixedPayloads == { [i \in 1..MaxPayloadLen |-> IF i = 1 THEN 65 ELSE -1] }

(***************************************************************************)
(* State                                                                   *)
(***************************************************************************)
VARIABLES
  pc,          \* what the driver (main.cpp's testMacUtil) does next
  mac,         \* the MacAddress handed to macToString
  macStr,      \* the address text: macToString's result or a given input
  parsedMac,   \* the MacAddress returned by the latest stringToMac call
  cerr,        \* the diagnostics that call wrote to std::cerr
  firstParse,  \* the text, result and diagnostics of an earlier call
  data,        \* the bytes handed to calculateChecksum
  sum,         \* the checksum returned
  firstSum,    \* the bytes and checksum of the first calculateChecksum call
  args,        \* the arguments of the EthernetFrame payload constructor
  frame,       \* the frame the sender holds
  original,    \* that frame as the constructor returned it
  wire,        \* the byte sequence travelling to the receiver
  rxStatus,    \* how deserialize ended: "none", "frame" or "crashed"
  rxFrame,     \* the frame deserialize returned
  nodeInboxes, \* NetworkMedium::nodeInboxes, node ID -> queue of packets
  handed,      \* per destination, the packets sendPacket was called with
  accepted,    \* per destination, those handed over while it was registered
  returned,    \* per node, the packets its receivePacket calls returned
  query,       \* the hasPackets call just made, if any, and its answer
  received     \* the receiveMessage call just made, if any, and its result

codecVars == <<mac, macStr, parsedMac, cerr, firstParse, data, sum, firstSum>>

frameVars == <<args, frame, original, wire, rxStatus, rxFrame>>

mediumVars == <<nodeInboxes, handed, accepted, returned, query, received>>

vars == <<pc, codecVars, frameVars, mediumVars>>

NoParse == [str |-> <<>>, mac |-> ZeroMac, cerr |-> <<>>, made |-> FALSE]

NoSum == [bytes |-> <<>>, sum |-> 0, made |-> FALSE]

\* a frame with every field zero or empty
EmptyFrame ==
  [destMac |-> ZeroMac, srcMac |-> ZeroMac, payloadLength |-> 0,
   payload |-> <<>>, checksum |-> 0]

NoArgs == [dest |-> ZeroMac, src |-> ZeroMac, data_payload |-> <<>>]

CodecIdle ==
  /\ mac = ZeroMac /\ macStr = <<>> /\ parsedMac = ZeroMac /\ cerr = <<>>
  /\ firstParse = NoParse /\ data = <<>> /\ sum = 0 /\ firstSum = NoSum

FrameIdle ==
  /\ args = NoArgs /\ frame = EmptyFrame /\ original = EmptyFrame
  /\ wire = <<>> /\ rxStatus = "none" /\ rxFrame = EmptyFrame

NoQuery == [made |-> FALSE, node |-> 0, answer |-> FALSE]

NoMessage == [made |-> FALSE, node |-> 0, message |-> <<>>]

MediumIdle ==
  /\ nodeInboxes = <<>> /\ handed = <<>> /\ accepted = <<>>
  /\ returned = <<>> /\ query = NoQuery /\ received = NoMessage

(***************************************************************************)
(* The codec specification: macToString, stringToMac and calculateChecksum *)
(* applied to inputs drawn from the sets above.                            *)
(***************************************************************************)
InitCodec ==
  /\ pc \in {"mac", "str", "data"}
  /\ mac \in (IF pc = "mac" THEN MacInputs ELSE {ZeroMac})
  /\ macStr \in (IF pc = "str" THEN TextInputs ELSE {<<>>})
  /\ data \in (IF pc = "data" THEN PayloadInputs \cup MixedPayloads ELSE {<<>>})
  /\ parsedMac = ZeroMac
  /\ cerr = <<>>
  /\ firstParse = NoParse
  /\ sum = 0
  /\ firstSum = NoSum
  /\ FrameIdle
  /\ MediumIdle

\* std::string s = MacUtil::macToString(mac)
MacToString ==
  /\ pc = "mac"
  /\ macStr' = macToString(mac)
  /\ pc' = "encoded"
  /\ UNCHANGED <<mac, parsedMac, cerr, firstParse, data, sum, firstSum, frameVars,
               mediumVars>>

\* MacAddress parsedMac = MacUtil::stringToMac(strMac)
StringToMac ==
  /\ pc \in {"encoded", "str"}
  /\ LET r == stringToMac(macStr)
     IN  /\ parsedMac' = r.mac
         /\ cerr' = r.cerr
  /\ pc' = IF pc = "encoded" THEN "roundtrip" ELSE "parsed"
  /\ UNCHANGED <<mac, macStr, firstParse, data, sum, firstSum, frameVars,
               mediumVars>>

UpperOf(c) ==
  IF \E d \in 11..16 : LowerHexDigits[d] = c
    THEN UpperHexDigits[CHOOSE d \in 11..16 : LowerHexDigits[d] = c] ELSE c

LowerOf(c) ==
  IF \E d \in 11..16 : UpperHexDigits[d] = c
    THEN LowerHexDigits[CHOOSE d \in 11..16 : UpperHexDigits[d] = c] ELSE c

SwapOf(c) == IF UpperOf(c) # c THEN UpperOf(c) ELSE LowerOf(c)

\* the texts that differ from s only in the case of hex letters: all upper,
\* all lower, every letter swapped, and the first letter alone swapped
Recasings(s) ==
  { [i \in 1..Len(s) |-> UpperOf(s[i])],
    [i \in 1..Len(s) |-> LowerOf(s[i])],
    [i \in 1..Len(s) |-> SwapOf(s[i])],
    [i \in 1..Len(s) |->
       IF \A j \in 1..(i - 1) : SwapOf(s[j]) = s[j] THEN SwapOf(s[i]) ELSE s[i]] }

\* the driver writes the same text with hex letters in another case and
\* parses it again
Recase ==
  /\ pc \in {"parsed", "roundtrip"}
  /\ ~firstParse.made
  /\ \E t \in Recasings(macStr) :
        /\ t # macStr
        /\ macStr' = t
  /\ firstParse' = [str |-> macStr, mac |-> parsedMac, cerr |-> cerr, made |-> TRUE]
  /\ pc' = "str"
  /\ UNCHANGED <<mac, parsedMac, cerr, data, sum, firstSum, frameVars, mediumVars>>

\* uint16_t sum = MacUtil::calculateChecksum(data)
CalculateChecksum ==
  /\ pc = "data"
  /\ sum' = calculateChecksum(data)
  /\ pc' = "summed"
  /\ UNCHANGED <<mac, macStr, parsedMac, cerr, firstParse, data, firstSum,
               frameVars, mediumVars>>

\* positions whose bytes the driver exchanges
SwapPositions(bytes) ==
  { k \in 1..Len(bytes) : k <= Len(Hello) \/ k = Len(bytes) }

\* the driver exchanges two different bytes of the data and sums it again
Permute ==
  /\ pc = "summed"
  /\ \E i, j \in SwapPositions(data) :
       /\ i < j
       /\ data[i] # data[j]
       /\ data' = [data EXCEPT ![i] = data[j], ![j] = data[i]]
  /\ firstSum' = IF firstSum.made THEN firstSum
                 ELSE [bytes |-> data, sum |-> sum, made |-> TRUE]
  /\ pc' = "data"
  /\ UNCHANGED <<mac, macStr, parsedMac, cerr, firstParse, sum, frameVars,
                 mediumVars>>

NextCodec ==
  MacToString \/ StringToMac \/ Recase \/ CalculateChecksum \/ Permute

SpecCodec == InitCodec /\ [][NextCodec]_vars

(***************************************************************************)
(* The frame specification: a frame is constructed, possibly has one       *)
(* payload byte changed, is serialized, possibly loses its tail on the     *)
(* way, and is deserialized.                                               *)
(***************************************************************************)
ExampleDest ==
  stringToMac(<<"A","A",":","B","B",":","C","C",":","D","D",":","E","E",":","F","F">>).mac

ExampleSrc ==
  stringToMac(<<"1","1",":","2","2",":","3","3",":","4","4",":","5","5",":","6","6">>).mac

DestMacs == {ExampleDest, <<0, 17, 34, 127, 128, 255>>}

SrcMacs == {ExampleSrc, ZeroMac}

\* values an out-of-bounds read is taken to yield
BeyondChars == {0, 1}

\* payload positions at which a byte is changed
CorruptPositions(payload) ==
  { k \in 1..Len(payload) : k <= MaxShortLen \/ k = Len(payload) }

\* lengths a serialized frame of n bytes is cut down to
CutLengths(n) ==
  { k \in 0..(n - 1) :
      k \in {0, HeaderLength - 2, HeaderLength - 1, HeaderLength, HeaderLength + 1}
      \/ k >= n - 2 }

InitFrame ==
  /\ pc = "args"
  /\ args \in [dest : DestMacs, src : SrcMacs, data_payload : PayloadInputs]
  /\ frame = EmptyFrame /\ original = EmptyFrame
  /\ wire = <<>> /\ rxStatus = "none" /\ rxFrame = EmptyFrame
  /\ CodecIdle
  /\ MediumIdle

\* EthernetFrame frame(dest, src, message)
Construct ==
  /\ pc = "args"
  /\ frame' = EthernetFrame(args.dest, args.src, args.data_payload)
  /\ original' = frame'
  /\ pc' = "built"
  /\ UNCHANGED <<args, wire, rxStatus, rxFrame, codecVars, mediumVars>>

\* frame.payload[k] = v, for a v other than the byte there; nothing else changes
Corrupt ==
  /\ pc = "built"
  /\ \E k \in CorruptPositions(frame.payload) :
       \E v \in PayloadChars \ {frame.payload[k]} :
         frame' = [frame EXCEPT !.payload[k] = v]
  /\ pc' = "corrupted"
  /\ UNCHANGED <<args, original, wire, rxStatus, rxFrame, codecVars, mediumVars>>

\* std::vector<char> raw = frame.serialize()
Serialize ==
  /\ pc \in {"built", "corrupted"}
  /\ wire' = serialize(frame)
  /\ pc' = "serialized"
  /\ UNCHANGED <<args, frame, original, rxStatus, rxFrame, codecVars, mediumVars>>

\* the receiver is handed only the first k bytes
Truncate ==
  /\ pc = "serialized"
  /\ \E k \in CutLengths(Len(wire)) : wire' = SubSeq(wire, 1, k)
  /\ pc' = "truncated"
  /\ UNCHANGED <<args, frame, original, rxStatus, rxFrame, codecVars, mediumVars>>

\* EthernetFrame received = EthernetFrame::deserialize(raw).  When a read
\* lies past the end of the buffer the behaviour is undefined: the call
\* returns a frame built from whatever those reads yield, or the process dies.
Deserialize ==
  /\ pc \in {"serialized", "truncated"}
  /\ IF ReadsPastEnd(wire)
       THEN \/ \E beyond \in BeyondChars :
                 /\ rxFrame' = deserialize(wire, beyond)
                 /\ rxStatus' = "frame"
            \/ /\ rxFrame' = EmptyFrame
               /\ rxStatus' = "crashed"
       ELSE /\ rxFrame' = deserialize(wire, 0)
            /\ rxStatus' = "frame"
  /\ pc' = "received"
  /\ UNCHANGED <<args, frame, original, wire, codecVars, mediumVars>>

NextFrame == Construct \/ Corrupt \/ Serialize \/ Truncate \/ Deserialize

SpecFrame == InitFrame /\ [][NextFrame]_vars

(***************************************************************************)
(* The construction specification: a frame is made by the payload          *)
(* constructor or by the default constructor and then serialized.          *)
(***************************************************************************)
\* values an uninitialized uint16_t member is taken to hold
IndeterminateUInt16 == {0, 1, UInt16Range - 1}

\* values an uninitialized MacAddress member is taken to hold
IndeterminateMacs == {ZeroMac, <<17, 34, 51, 68, 85, 102>>}

InitConstruct ==
  /\ pc = "args"
  /\ args \in [dest : {<<170, 187, 204, 221, 238, 255>>},
               src : {<<17, 34, 51, 68, 85, 102>>},
               data_payload : PayloadInputs]
  /\ frame = EmptyFrame /\ original = EmptyFrame
  /\ wire = <<>> /\ rxStatus = "none" /\ rxFrame = EmptyFrame
  /\ CodecIdle
  /\ MediumIdle

\* EthernetFrame frame;  -- the defaulted constructor default-initializes the
\* members: payload is an empty vector, while destMac, srcMac, payloadLength
\* and checksum have no initializer and hold indeterminate values
DefaultConstruct ==
  /\ pc = "args"
  /\ frame' \in [destMac : IndeterminateMacs, srcMac : IndeterminateMacs,
                 payloadLength : IndeterminateUInt16, payload : {<<>>},
                 checksum : IndeterminateUInt16]
  /\ original' = frame'
  /\ pc' = "default"
  /\ UNCHANGED <<args, wire, rxStatus, rxFrame, codecVars, mediumVars>>

NextConstruct == Construct \/ DefaultConstruct \/ Serialize

SpecConstruct == InitConstruct /\ [][NextConstruct]_vars

(***************************************************************************)
(* The length specification: frames are made by the payload constructor    *)
(* and serialized; the payloads include the longest one a 16-bit length    *)
(* can count and the shortest one it cannot.                               *)
(***************************************************************************)
\* payloads of 65535 and of 65536 bytes
EdgePayloads ==
  { [i \in 1..n |-> 72] : n \in {UInt16Range - 1, UInt16Range} }

InitLength ==
  /\ pc = "args"
  /\ args \in [dest : {<<170, 187, 204, 221, 238, 255>>},
               src : {<<17, 34, 51, 68, 85, 102>>},
               data_payload : PayloadInputs \cup EdgePayloads]
  /\ frame = EmptyFrame /\ original = EmptyFrame
  /\ wire = <<>> /\ rxStatus = "none" /\ rxFrame = EmptyFrame
  /\ CodecIdle
  /\ MediumIdle

NextLength == Construct \/ Serialize

SpecLength == InitLength /\ [][NextLength]_vars

(***************************************************************************)
(* The medium specification: any interleaving of registerNode, sendPacket, *)
(* receivePacket and hasPackets calls on one NetworkMedium.                *)
(***************************************************************************)
RECURSIVE TotalLen(_, _)
\* the number of packets in the sequences f[n], n in nodes
TotalLen(f, nodes) ==
  IF nodes = {} THEN 0
  ELSE LET n == CHOOSE m \in nodes : TRUE
       IN  Len(f[n]) + TotalLen(f, nodes \ {n})

\* NetworkMedium medium;  (the map starts empty)
InitMedium ==
  /\ pc = "medium"
  /\ nodeInboxes = <<>>
  /\ handed = [n \in NodeIDs |-> <<>>]
  /\ accepted = [n \in NodeIDs |-> <<>>]
  /\ returned = [n \in NodeIDs |-> <<>>]
  /\ query = NoQuery
  /\ received = NoMessage
  /\ CodecIdle
  /\ FrameIdle

\* medium.registerNode(n)
RegisterNode ==
  /\ pc = "medium"
  /\ \E n \in NodeIDs :
       nodeInboxes' = registerNode(nodeInboxes, n)
  /\ query' = NoQuery
  /\ UNCHANGED <<pc, handed, accepted, returned, received, codecVars,
                 frameVars>>

\* medium.sendPacket(src, dest, packet)
SendPacket ==
  /\ pc = "medium"
  /\ TotalLen(handed, NodeIDs) < MaxSends
  /\ \E src \in NodeIDs, dest \in NodeIDs, packet \in RawPackets :
       /\ nodeInboxes' = sendPacket(nodeInboxes, src, dest, packet)
       /\ handed' = [handed EXCEPT ![dest] = Append(@, packet)]
       /\ accepted' = IF dest \in DOMAIN nodeInboxes
                        THEN [accepted EXCEPT ![dest] = Append(@, packet)]
                        ELSE accepted
  /\ query' = NoQuery
  /\ UNCHANGED <<pc, returned, received, codecVars, frameVars>>

\* RawPacket p = medium.receivePacket(n)
ReceivePacket ==
  /\ pc = "medium"
  /\ TotalLen(returned, NodeIDs) < MaxReceives
  /\ \E n \in NodeIDs :
       LET r == receivePacket(nodeInboxes, n)
       IN  /\ nodeInboxes' = r.inboxes
           /\ returned' = [returned EXCEPT ![n] = Append(@, r.packet)]
  /\ query' = NoQuery
  /\ UNCHANGED <<pc, handed, accepted, received, codecVars, frameVars>>

\* bool b = medium.hasPackets(n)
HasPackets ==
  /\ pc = "medium"
  /\ \E n \in NodeIDs :
       LET r == hasPackets(nodeInboxes, n)
       IN  /\ nodeInboxes' = r.inboxes
           /\ query' = [made |-> TRUE, node |-> n, answer |-> r.answer]
  /\ UNCHANGED <<pc, handed, accepted, returned, received, codecVars,
                 frameVars>>

NextMedium == RegisterNode \/ SendPacket \/ ReceivePacket \/ HasPackets

SpecMedium == InitMedium /\ [][NextMedium]_vars

(***************************************************************************)
(* The node specification: Node objects are constructed on one             *)
(* NetworkMedium and call sendMessage, hasIncomingMessages and             *)
(* receiveMessage in any order.  The nodes that exist are the registered   *)
(* ones: only the Node constructor registers.  handed, accepted and        *)
(* returned hold messages here: per destination those sendMessage was      *)
(* called with, those sent while it was registered, and per node those     *)
(* its receiveMessage calls took from the medium.                          *)
(***************************************************************************)
InitNode ==
  /\ pc = "node"
  /\ nodeInboxes = <<>>
  /\ handed = [n \in NodeIDs |-> <<>>]
  /\ accepted = [n \in NodeIDs |-> <<>>]
  /\ returned = [n \in NodeIDs |-> <<>>]
  /\ query = NoQuery
  /\ received = NoMessage
  /\ CodecIdle
  /\ FrameIdle

\* Node node(n, medium)
NewNode ==
  /\ pc = "node"
  /\ \E n \in NodeIDs : nodeInboxes' = Node(nodeInboxes, n)
  /\ query' = NoQuery
  /\ received' = NoMessage
  /\ UNCHANGED <<pc, handed, accepted, returned, codecVars, frameVars>>

\* a.sendMessage(b, message)
SendMessage ==
  /\ pc = "node"
  /\ TotalLen(handed, NodeIDs) < MaxSends
  /\ \E a \in DOMAIN nodeInboxes, b \in NodeIDs, message \in Messages :
       /\ nodeInboxes' = sendMessage(nodeInboxes, a, b, message)
       /\ handed' = [handed EXCEPT ![b] = Append(@, message)]
       /\ accepted' = IF b \in DOMAIN nodeInboxes
                        THEN [accepted EXCEPT ![b] = Append(@, message)]
                        ELSE accepted
  /\ query' = NoQuery
  /\ received' = NoMessage
  /\ UNCHANGED <<pc, returned, codecVars, frameVars>>

\* bool b = n.hasIncomingMessages()
HasIncomingMessages ==
  /\ pc = "node"
  /\ \E n \in DOMAIN nodeInboxes :
       LET r == hasIncomingMessages(nodeInboxes, n)
       IN  /\ nodeInboxes' = r.inboxes
           /\ query' = [made |-> TRUE, node |-> n, answer |-> r.answer]
  /\ received' = NoMessage
  /\ UNCHANGED <<pc, handed, accepted, returned, codecVars, frameVars>>

\* std::string message = n.receiveMessage()
ReceiveMessage(n) ==
  /\ pc = "node"
  /\ n \in DOMAIN nodeInboxes
  /\ LET r == receiveMessage(nodeInboxes, n)
     IN  /\ nodeInboxes' = r.inboxes
         /\ received' = [made |-> TRUE, node |-> n, message |-> r.message]
         /\ returned' = IF r.got
                          THEN [returned EXCEPT ![n] = Append(@, r.message)]
                          ELSE returned
  /\ query' = NoQuery
  /\ UNCHANGED <<pc, handed, accepted, codecVars, frameVars>>

NextNode ==
  \/ NewNode
  \/ SendMessage
  \/ HasIncomingMessages
  \/ \E n \in NodeIDs : ReceiveMessage(n)

SpecNode == InitNode /\ [][NextNode]_vars

\* a node keeps calling receiveMessage
SpecNodeFair ==
  SpecNode /\ \A n \in NodeIDs : WF_vars(ReceiveMessage(n))

(***************************************************************************)
(* Reference notions the properties are stated with                        *)
(***************************************************************************)
\* the value 0..255 of the byte a char holds
UnsignedValue(c) == (c + ByteRange) % ByteRange

RECURSIVE RangeSum(_, _, _)
\* the sum, without wrapping, of the unsigned values of bytes[lo..hi]
RangeSum(bytes, lo, hi) ==
  IF lo > hi THEN 0
  ELSE IF lo = hi THEN UnsignedValue(bytes[lo])
  ELSE RangeSum(bytes, lo, (lo + hi) \div 2)
         + RangeSum(bytes, (lo + hi) \div 2 + 1, hi)

PlainSum(bytes) == RangeSum(bytes, 1, Len(bytes))

HexChars ==
  { UpperHexDigits[d] : d \in 1..16 } \cup { LowerHexDigits[d] : d \in 1..16 }

\* XX:XX:XX:XX:XX:XX with hex digits of either case
WellFormed(s) ==
  /\ Len(s) = 3 * MAC_ADDRESS_LENGTH - 1
  /\ \A i \in 1..Len(s) : IF i % 3 = 0 THEN s[i] = ":" ELSE s[i] \in HexChars

SameUpToCase(s, t) ==
  /\ Len(s) = Len(t)
  /\ \A i \in 1..Len(s) : UpperOf(s[i]) = UpperOf(t[i])

ColonCount(s) == Cardinality({ i \in 1..Len(s) : s[i] = ":" })

FiveGroups == <<"a","B",":","a","B",":","a","B",":","a","B",":","a","B">>

\* the result a rejected call has: all zeros and one diagnostic
Refused == parsedMac = ZeroMac /\ Len(cerr) = 1

\* the length of XX:XX:XX:XX:XX:XX
FullLength == 3 * MAC_ADDRESS_LENGTH - 1

\* six well-formed groups with something after the sixth
TrailingExtra(s) == Len(s) > FullLength /\ WellFormed(SubSeq(s, 1, FullLength))

\* six groups (five colons), one of them with a character that is no hex digit
NonHexInGroup(s) ==
  /\ ColonCount(s) = MAC_ADDRESS_LENGTH - 1
  /\ \E i \in 1..Len(s) : s[i] \notin HexChars \cup {":"}

\* s[a..b] is a group of s: a longest stretch without a colon
IsGroup(s, a, b) ==
  /\ a <= b
  /\ a = 1 \/ s[a - 1] = ":"
  /\ b = Len(s) \/ s[b + 1] = ":"
  /\ \A i \in a..b : s[i] # ":"

\* some group of s is a hex number above 255: hex digits only, with a digit
\* other than 0 that has at least two digits after it
GroupAboveByte(s) ==
  \E a \in 1..Len(s) : \E b \in a..Len(s) :
    /\ IsGroup(s, a, b)
    /\ \A i \in a..b : s[i] \in HexChars
    /\ \E i \in a..(b - 2) : s[i] # "0"

\* where group k (1-based) starts when the gaps before it have the widths
\* given: 0 for a missing separator, 1 for a one-character separator
GroupStart(gaps, k) ==
  2 * (k - 1) + Cardinality({ j \in 1..(k - 1) : gaps[j] = 1 }) + 1

\* s is six groups of two hex digits with those gaps between them
HasGaps(s, gaps) ==
  /\ Len(s) = GroupStart(gaps, MAC_ADDRESS_LENGTH) + 1
  /\ \A k \in 1..MAC_ADDRESS_LENGTH :
       /\ s[GroupStart(gaps, k)] \in HexChars
       /\ s[GroupStart(gaps, k) + 1] \in HexChars

\* six groups of two hex digits, the separator after one of the first five
\* missing or a character other than ':'
SeparatorFault(s) ==
  \E gaps \in [1..(MAC_ADDRESS_LENGTH - 1) -> {0, 1}] :
    /\ HasGaps(s, gaps)
    /\ \E k \in 1..(MAC_ADDRESS_LENGTH - 1) :
         gaps[k] = 0 \/ s[GroupStart(gaps, k) + 2] # ":"

\* hex digits and colons only, but not XX:XX:XX:XX:XX:XX
WrongDigitCount(s) ==
  /\ \A i \in 1..Len(s) : s[i] \in HexChars \cup {":"}
  /\ ~WellFormed(s)

\* s begins with k units XX: of two hex digits and a colon
StrictUnits(s, k) ==
  /\ Len(s) >= 3 * k
  /\ \A j \in 0..(k - 1) :
       /\ s[3 * j + 1] \in HexChars
       /\ s[3 * j + 2] \in HexChars
       /\ s[3 * j + 3] = ":"

\* the value of the two hex digits of unit j (0-based) of s
UnitValue(s, j) == 16 * HexDigitValue(s[3 * j + 1]) + HexDigitValue(s[3 * j + 2])

ZeroText ==
  <<"0","0",":","0","0",":","0","0",":","0","0",":","0","0",":","0","0">>

BadHexText ==
  <<"0","0",":","1","1",":","2","2",":","X","X",":","Y","Y",":","Z","Z">>

OneDigitText ==
  <<"0","0",":","1","1",":","2","2",":","A","A",":","B","B",":","C">>

\* a is the beginning of b
IsPrefix(a, b) == Len(a) <= Len(b) /\ SubSeq(b, 1, Len(a)) = a

IsNonEmpty(packet) == packet # EmptyRawPacket

\* the packets of a sequence that hold at least one byte, in order
NonEmpty(packets) == SelectSeq(packets, IsNonEmpty)

\* how many packets of a sequence hold no byte
Empties(packets) == Len(packets) - Len(NonEmpty(packets))

\* the packets waiting in the inbox of node n
Pending(n) == IF n \in DOMAIN nodeInboxes THEN nodeInboxes[n] ELSE <<>>

\* every packet of `given` has been returned to node n or waits in its
\* inbox, in the order given, none twice and none changed
AllKept(given, n) ==
  /\ NonEmpty(given) = NonEmpty(returned[n]) \o NonEmpty(Pending(n))
  /\ Empties(given) <= Empties(returned[n]) + Empties(Pending(n))
  /\ Empties(Pending(n)) <= Empties(given)

\* how often the char c occurs in bytes
CountOf(bytes, c) == Cardinality({ k \in 1..Len(bytes) : bytes[k] = c })

\* t holds the bytes of s in some order
IsPermutation(s, t) ==
  /\ Len(s) = Len(t)
  /\ \A k \in 1..Len(s) : CountOf(s, s[k]) = CountOf(t, s[k])

\* the last element of a non-empty sequence
Last(seq) == seq[Len(seq)]

\* a message sent to node n while it was registered has not been taken by it
HadPending(n) == Len(accepted[n]) > Len(returned[n])

\* the oldest such message
Oldest(n) == accepted[n][Len(returned[n]) + 1]

ExampleArgs == [dest |-> ExampleDest, src |-> ExampleSrc, data_payload |-> Hello]

\* the frame handed to the receiver complete and as the constructor made it
Intact == wire = serialize(frame) /\ frame = original

\* frame differs from the constructed one in exactly one payload byte
OneByteChanged ==
  /\ frame.checksum = original.checksum
  /\ frame.payloadLength = original.payloadLength
  /\ Len(frame.payload) = Len(original.payload)
  /\ Cardinality({ k \in 1..Len(frame.payload) :
                     frame.payload[k] # original.payload[k] }) = 1

(***************************************************************************)
(* Properties                                                              *)
(***************************************************************************)
\* C1: address round trip -- decoding the text macToString produced for any
\* 6-byte address succeeds without a diagnostic and returns that address.
C1_AddressRoundTrip ==
  pc = "roundtrip" => (cerr = <<>> /\ parsedMac = mac)

C1_Witness ==
  /\ pc = "roundtrip"
  /\ mac = <<255, 10, 0, 26, 255, 10>>
  /\ parsedMac = mac

C3_ChecksumIsSumMod65536 ==
  pc = "summed" =>
    /\ sum = PlainSum(data) % UInt16Range
    /\ (data = <<>> => sum = 0)
    /\ (PlainSum(data) < UInt16Range => sum = PlainSum(data))

C3_Witness ==
  /\ pc = "summed"
  /\ PlainSum(data) >= UInt16Range
  /\ \E i \in 1..Len(data) : data[i] < 0
  /\ sum = PlainSum(data) - UInt16Range

C5_SingleByteCorruptionDetected ==
  (pc = "received" /\ wire = serialize(frame) /\ OneByteChanged) =>
    (rxStatus = "frame" /\ ~verifyChecksum(rxFrame))

C5_Witness ==
  /\ pc = "received" /\ wire = serialize(frame) /\ OneByteChanged
  /\ frame.payload[1] # original.payload[1]
  /\ ~verifyChecksum(rxFrame)

C7_ShortBufferRejected ==
  (pc = "received" /\ ReadsPastEnd(wire)) => rxStatus = "malformed"

\* C8: macToString gives exactly 17 characters: six groups of two uppercase
\* hex digits, zero-padded, group i the value of byte i, single colons
\* between the groups and none at either end.
C8_EncodeFormat ==
  pc = "encoded" =>
    /\ Len(macStr) = 17
    /\ \A i \in 0..(MAC_ADDRESS_LENGTH - 1) :
         /\ macStr[3 * i + 1] = UpperHexDigits[(mac[i + 1] \div 16) + 1]
         /\ macStr[3 * i + 2] = UpperHexDigits[(mac[i + 1] % 16) + 1]
         /\ (i < MAC_ADDRESS_LENGTH - 1 => macStr[3 * i + 3] = ":")

C8_Witness ==
  /\ pc = "encoded"
  /\ mac[1] = 10 /\ mac[2] = 255 /\ mac[6] = 0
  /\ macStr[1] = "0" /\ macStr[2] = "A" /\ macStr[4] = "F"
  /\ macStr[17] = "0"

\* C9: stringToMac is case-insensitive -- a well-formed address text and the
\* same text with hex letters in another case both decode without a
\* diagnostic and to the same address.
C9_CaseInsensitive ==
  (pc = "parsed" /\ firstParse.made /\ WellFormed(firstParse.str)
     /\ SameUpToCase(macStr, firstParse.str)) =>
    /\ firstParse.cerr = <<>>
    /\ cerr = <<>>
    /\ parsedMac = firstParse.mac

C9_Witness ==
  /\ pc = "parsed" /\ firstParse.made /\ WellFormed(firstParse.str)
  /\ macStr # firstParse.str
  /\ SameUpToCase(macStr, firstParse.str)
  /\ parsedMac = firstParse.mac
  /\ parsedMac[1] = 171 /\ parsedMac[2] = 255

\* C10: a text with fewer than 6 groups (fewer than 5 colons, the empty text
\* included) decodes to the all-zero address with a diagnostic.
C10_FewerGroupsRejected ==
  (pc = "parsed" /\ ColonCount(macStr) < MAC_ADDRESS_LENGTH - 1) =>
    (parsedMac = ZeroMac /\ Len(cerr) = 1)

C10_Witness ==
  /\ pc = "parsed"
  /\ macStr = FiveGroups
  /\ parsedMac = ZeroMac
  /\ cerr = <<Diag("colon", 4)>>

\* C11: a text with more than six groups, or with any extra character after
\* six well-formed groups, decodes to the all-zero address with a diagnostic.
C11_ExtraRejected ==
  (pc = "parsed"
     /\ (ColonCount(macStr) > MAC_ADDRESS_LENGTH - 1 \/ TrailingExtra(macStr)))
    => Refused

\* C12: a text of six groups one of which contains a character that is not a
\* hex digit decodes to the all-zero address with a diagnostic.
C12_NonHexRejected ==
  (pc = "parsed" /\ NonHexInGroup(macStr)) => Refused

\* C13: a text with a group whose hex value exceeds 255 -- three or more
\* significant digits, however many, also more than an unsigned int holds --
\* decodes to the all-zero address with a diagnostic.
C13_AboveByteRejected ==
  (pc = "parsed" /\ GroupAboveByte(macStr)) => Refused

C13_Witness ==
  /\ pc = "parsed"
  /\ macStr = BuildText(MAC_ADDRESS_LENGTH, <<"a", "B">>, MAC_ADDRESS_LENGTH,
                        <<"1", "0", "0", "0", "0", "0", "0", "0", "0">>,
                        0, <<":">>, <<>>)
  /\ parsedMac = ZeroMac
  /\ cerr = <<Diag("read", 5)>>

\* C14: a text of six two-digit groups in which the separator after one of
\* the first five groups is missing or is a single character other than ':'
\* decodes to the all-zero address with a diagnostic.
C14_SeparatorRejected ==
  (pc = "parsed" /\ SeparatorFault(macStr)) => Refused

C14_Witness ==
  /\ pc = "parsed"
  /\ macStr = <<"a","B",":","a","B",":","a","B",":","a","B",":","a","B"," ","a","B">>
  /\ SeparatorFault(macStr)
  /\ parsedMac = ZeroMac
  /\ cerr = <<Diag("colon", 4)>>

\* C15: a text of hex digits and colons in which some group does not have
\* exactly two digits decodes to the all-zero address; "00:11:22:AA:BB:C" is
\* not decoded with 0x0C as its last byte.
C15_DigitCountRejected ==
  (pc = "parsed" /\ WrongDigitCount(macStr)) => parsedMac = ZeroMac

C17_OrderInsensitive ==
  (pc = "summed" /\ firstSum.made /\ IsPermutation(firstSum.bytes, data)) =>
    sum = firstSum.sum

C17_Witness ==
  /\ pc = "summed"
  /\ firstSum.made
  /\ firstSum.bytes = Hello
  /\ data = <<111, 108, 108, 101, 72>>
  /\ sum = 500

\* C18 as stated: for a registered node n, the non-empty packets its
\* receivePacket calls returned are the beginning of the sequence of packets
\* sendPacket accepted for n.
C18_ReturnedPrefixOfAccepted ==
  \A n \in DOMAIN nodeInboxes : IsPrefix(NonEmpty(returned[n]), accepted[n])

\* C18: per-endpoint FIFO -- for a registered node n, the non-empty packets
\* its receivePacket calls returned are, in order, the beginning of the
\* sequence of non-empty packets sendPacket accepted for n.
C18_PerEndpointFIFO ==
  \A n \in DOMAIN nodeInboxes :
    IsPrefix(NonEmpty(returned[n]), NonEmpty(accepted[n]))

C18_Witness ==
  /\ 2 \in DOMAIN nodeInboxes
  /\ accepted[2] = << <<72, 105>>, <<72>> >>
  /\ returned[2] = << <<72, 105>>, <<72>> >>
  /\ Pending(2) = <<>>

\* C19 as stated: every packet handed to sendPacket for a node, registered or
\* not, has been returned to that node or waits in its inbox -- none dropped,
\* none twice, none changed.
C19_NothingHandedIsLost ==
  \A n \in NodeIDs : AllKept(handed[n], n)

\* C19: lossless transport to registered nodes -- every packet handed to
\* sendPacket for a node that was registered at that moment has been returned
\* to that node or waits in its inbox, in order, none twice, none changed.
C19_NothingAcceptedIsLost ==
  \A n \in NodeIDs : AllKept(accepted[n], n)

C19_Witness ==
  /\ accepted[3] = << <<72, 105>>, <<72>> >>
  /\ returned[3] = << <<72, 105>> >>
  /\ Pending(3) = << <<72>> >>

\* C20: a receivePacket(n) call made while nothing is pending for n -- its
\* inbox empty, or n not registered -- returns the empty packet and leaves
\* nodeInboxes as it was: no inbox is created and none is changed.
C20_EmptyReceiveChangesNothing ==
  [][\A n \in NodeIDs :
       (returned'[n] # returned[n] /\ Pending(n) = <<>>) =>
         /\ returned'[n] = Append(returned[n], EmptyRawPacket)
         /\ nodeInboxes' = nodeInboxes]_vars

C20_Witness ==
  /\ 1 \notin DOMAIN nodeInboxes
  /\ returned[1] = <<EmptyRawPacket>>
  /\ 2 \in DOMAIN nodeInboxes
  /\ returned[2] = <<EmptyRawPacket>>
  /\ accepted[2] = << <<72>> >>
  /\ Pending(2) = << <<72>> >>

\* C21: hasPackets(n) is true exactly when n is registered and a packet
\* accepted for n has not yet been received by it, false for an unregistered
\* n, and the call leaves nodeInboxes as it was (no inbox is created).
\* Stated on the record of the calls: fewer receivePacket(n) calls than
\* packets accepted means true; true means n is registered and its calls
\* returned fewer non-empty packets than were accepted; and with no empty
\* packet among the accepted ones the answer is that comparison.
C21_HasPacketsExact ==
  [][(query' # query /\ query'.made) =>
       LET n == query'.node
           registered == n \in DOMAIN nodeInboxes
       IN  /\ nodeInboxes' = nodeInboxes
           /\ (~registered => ~query'.answer)
           /\ (query'.answer =>
                 /\ registered
                 /\ Len(accepted[n]) > Len(NonEmpty(returned[n])))
           /\ ((registered /\ Len(accepted[n]) > Len(returned[n])) =>
                 query'.answer)
           /\ (NonEmpty(accepted[n]) = accepted[n] =>
                 (query'.answer <=>
                    (registered
                       /\ Len(accepted[n]) > Len(NonEmpty(returned[n])))))]_vars

C21_Witness ==
  /\ query = [made |-> TRUE, node |-> 2, answer |-> FALSE]
  /\ DOMAIN nodeInboxes = {1, 2}
  /\ accepted[2] = << <<72>> >>
  /\ returned[2] = << <<72>> >>
  /\ accepted[1] = << <<72, 105>> >>
  /\ Pending(1) = << <<72, 105>> >>
  /\ 3 \notin DOMAIN nodeInboxes

C23_NoPartialFrame ==
  /\ pc \in {"built", "default"} =>
       /\ frame.payloadLength = Len(frame.payload)
       /\ frame.checksum = PlainSum(frame.payload) % UInt16Range
  /\ pc = "default" =>
       /\ frame.payload = <<>>
       /\ frame.payloadLength = 0
       /\ frame.checksum = 0

C27_UnregisteredSendDropped ==
  /\ [][\A d \in NodeIDs :
          /\ (handed'[d] # handed[d] /\ d \notin DOMAIN nodeInboxes) =>
                nodeInboxes' = nodeInboxes
          /\ (d \notin DOMAIN nodeInboxes /\ d \in DOMAIN nodeInboxes') =>
                nodeInboxes'[d] = <<>>]_vars
  /\ [](\A d \in NodeIDs :
          NonEmpty(returned[d]) \o NonEmpty(Pending(d))
            = NonEmpty(accepted[d]))

C27_Witness ==
  /\ 1 \in DOMAIN nodeInboxes
  /\ handed[1] = << <<72>> >>
  /\ accepted[1] = <<>>
  /\ Pending(1) = <<>>
  /\ returned[1] = <<EmptyRawPacket>>

\* C28: stringToMac accepts nothing but hex digits and colons -- a text
\* with a character that is neither (a blank at the start, between the
\* tokens or at the end, a sign, the x of a 0x or 0X prefix), wherever it
\* stands, decodes to the all-zero address with a diagnostic.
C28_OnlyHexDigitsAndColons ==
  (pc = "parsed"
     /\ \E i \in 1..Len(macStr) : macStr[i] \notin HexChars \cup {":"})
    => Refused

\* C25: node-to-node exchange -- after node A's sendMessage(B, m) for a
\* registered node B other than A, B.hasIncomingMessages() is true and, with
\* nothing older pending, B's next receiveMessage() returns exactly m; the
\* send leaves the set of inboxes and every inbox but B's, A's own
\* included, as they were.  B's reply to A is such a send too.
C25_NodeToNodeExchange ==
  [][\A b \in NodeIDs :
       /\ accepted'[b] # accepted[b] =>
             /\ hasIncomingMessages(nodeInboxes', b).answer
             /\ DOMAIN nodeInboxes' = DOMAIN nodeInboxes
             /\ \A n \in DOMAIN nodeInboxes \ {b} :
                   nodeInboxes'[n] = nodeInboxes[n]
             /\ ~HadPending(b) =>
                   receiveMessage(nodeInboxes', b).message = Last(accepted'[b])
       /\ (returned'[b] # returned[b]
             /\ Len(accepted[b]) = Len(returned[b]) + 1) =>
             /\ received' = [made |-> TRUE, node |-> b,
                             message |-> Last(accepted[b])]
             /\ returned'[b] = accepted[b]]_vars

C25_Witness ==
  /\ DOMAIN nodeInboxes = {1, 2, 3}
  /\ accepted[2] = <<HelloMessage>>
  /\ returned[2] = <<HelloMessage>>
  /\ accepted[1] = <<ReplyMessage>>
  /\ returned[1] = <<ReplyMessage>>
  /\ received = [made |-> TRUE, node |-> 1, message |-> ReplyMessage]
  /\ accepted[3] = <<>>
  /\ \A n \in NodeIDs : Pending(n) = <<>>

\* C26: the packet a Node puts on the medium has the size the README's
\* expected output lists -- 26 bytes for "Hello Node 2 from Node 1!" and 52
\* bytes for "Hi Node 1! Got your message. Greetings from Node 2!".
C26_PacketSizesOfReadme ==
  \A n \in DOMAIN nodeInboxes :
    \A k \in 1..Len(nodeInboxes[n]) :
      /\ accepted[n][Len(returned[n]) + k] = HelloMessage =>
            size(nodeInboxes[n][k]) = 26
      /\ accepted[n][Len(returned[n]) + k] = ReplyMessage =>
            size(nodeInboxes[n][k]) = 52

C30_EventualDelivery ==
  /\ [](\A n \in NodeIDs : IsPrefix(returned[n], accepted[n]))
  /\ []<>(\A n \in NodeIDs : returned[n] = accepted[n])
  /\ <>[](\A n \in NodeIDs : ~hasIncomingMessages(nodeInboxes, n).answer)

C30_Witness ==
  /\ TotalLen(handed, NodeIDs) = MaxSends
  /\ accepted[3] = <<ReplyMessage, HelloMessage>>
  /\ returned[3] = <<ReplyMessage, HelloMessage>>
  /\ \A n \in NodeIDs : Pending(n) = <<>>

=============================================================================
